---- MODULE Spec2Model ----
(***************************************************************************)
(* Workshop scheduler of the car-service predictor: the in-memory          *)
(* repository (server/storage.ts) and the request handlers that create     *)
(* and complete work orders (server/routes.ts).                            *)
(*                                                                         *)
(* Numbers.  Hours are kept in units of 1/12000 hour (HourUnits), which    *)
(* makes every term of the duration formula an integer; the factor sum is  *)
(* kept in 600ths.  Instants are seconds since local midnight of day 0.    *)
(* Ratings are kept in tenths (4.5 is 45).                                 *)
(***************************************************************************)
EXTENDS Integers, Sequences, FiniteSets, TLC

\* ------------------------------------------------------------------ bounds
NumWorkers == 4
MaxCreates == 3
MaxCompletes == 2
MaxCapCreates == 8
MaxBurstCreates == 5
MaxStockCreates == 9
MaxRestocks == 1
MaxHours == 10
MaxLiveCount == 7
MaxWearCreates == 6
MaxWearCompletes == 1
MaxQueueCreates == 10
MaxQueueCompletes == 4
MaxDegradedCreates == 10
MaxDegradedCompletes == 4
MaxRushCreates == 8
MaxRushCompletes == 1
MaxLoopRequests == 7
MaxPairs == 1
MaxLoopCompletes == 1
MaxCapCalls == 1

\* ------------------------------------------------------- program constants
NumBays == 6
ShopCapacity == 6
MaxJobsPerWorker == 3
MaxWorkersPerBay == 3
BayLoadLimit == 90
BayLoadStep == 50
RestockAmount == 5
WORK_START == 10
WORK_END == 19
HourUnits == 12000
SecondsPerDay == 86400
CurrentYear == 2025

\* An optional value (T | undefined) is a sequence of length at most one.
Undefined == <<>>
Some(v) == <<v>>

\* Bay labels: "Bay n", or the literal "QUEUED".
QUEUED == <<"QUEUED", 0>>
BayLabel(n) == <<"Bay", n>>

Max(a, b) == IF a >= b THEN a ELSE b
Min(a, b) == IF a <= b THEN a ELSE b

\* Math.round(n / d) for d > 0: the nearest integer, a half rounding up.
MathRound(n, d) == (2 * n + d) \div (2 * d)

\* Math.ceil(n / d) for d > 0.
MathCeil(n, d) == -((-n) \div d)

Range(s) == {s[i] : i \in 1..Len(s)}

RemoveAt(s, i) == SubSeq(s, 1, i - 1) \o SubSeq(s, i + 1, Len(s))

\* Array.prototype.filter with the predicate given as the set of kept values.
FilterSeq(s, keep) == SelectSeq(s, LAMBDA x : x \in keep)

\* Array.from(new Set(s)): first occurrences, in order.
RECURSIVE Dedup(_)
Dedup(s) ==
  IF s = <<>> THEN <<>>
  ELSE LET front == Dedup(SubSeq(s, 1, Len(s) - 1))
           last == s[Len(s)]
       IN IF last \in Range(front) THEN front ELSE Append(front, last)

\* Array.prototype.sort with a comparator that orders by an integer key:
\* stable, so equal keys keep their order.
MinIdx(s, key) ==
  CHOOSE i \in 1..Len(s) :
    /\ \A j \in 1..Len(s) : key[s[i]] <= key[s[j]]
    /\ \A j \in 1..(i - 1) : key[s[j]] > key[s[i]]

RECURSIVE StableSort(_, _)
StableSort(s, key) ==
  IF s = <<>> THEN <<>>
  ELSE LET i == MinIdx(s, key)
       IN <<s[i]>> \o StableSort(RemoveAt(s, i), key)

\* ------------------------------------------------------------- seed data
Workers == 1..NumWorkers
Bays == 1..NumBays

skills == <<"Engine", "Brake", "AC", "General">>

\* skills[idx % 4] for the worker at 0-based position idx.
SkillOf(w) == skills[((w - 1) % 4) + 1]

\* rating = 3.5 + Math.random() * 1.5, one decimal, in tenths.  Two draws stand
\* for it: ratings that fall with the position (ties among equal loads go to
\* the earlier worker) and ratings that rise with it (to the later worker).
RatingMaps == {[w \in Workers |-> 50 - w], [w \in Workers |-> 35 + w]}

inventoryData ==
  [p \in {"AC Cleaner", "Air Filter", "Engine Oil (5W-30)", "Spark Plugs",
          "Brake Pads", "Coolant", "Transmission Fluid", "Battery (12V)"} |->
     CASE p = "AC Cleaner" -> [quantity |-> 15, minimumStock |-> 5]
       [] p = "Air Filter" -> [quantity |-> 25, minimumStock |-> 10]
       [] p = "Engine Oil (5W-30)" -> [quantity |-> 30, minimumStock |-> 15]
       [] p = "Spark Plugs" -> [quantity |-> 40, minimumStock |-> 20]
       [] p = "Brake Pads" -> [quantity |-> 20, minimumStock |-> 8]
       [] p = "Coolant" -> [quantity |-> 18, minimumStock |-> 10]
       [] p = "Transmission Fluid" -> [quantity |-> 12, minimumStock |-> 8]
       [] p = "Battery (12V)" -> [quantity |-> 8, minimumStock |-> 5]]

PartNames == DOMAIN inventoryData

Task(hoursX4, category, parts) ==
  [baseTimeHours |-> hoursX4 * (HourUnits \div 4), category |-> category,
   requiredParts |-> parts]

serviceTasks ==
  [n \in {"Oil Change", "Air Filter Replacement", "Brake Inspection",
          "Brake Pad Replacement", "Engine Diagnostic", "Spark Plug Replacement",
          "AC Service", "Coolant Flush", "Transmission Service",
          "Battery Replacement", "Tire Rotation", "Wheel Alignment"} |->
     CASE n = "Oil Change" -> Task(2, "General", <<"Engine Oil (5W-30)">>)
       [] n = "Air Filter Replacement" -> Task(1, "General", <<"Air Filter">>)
       [] n = "Brake Inspection" -> Task(3, "Brake", <<>>)
       [] n = "Brake Pad Replacement" -> Task(8, "Brake", <<"Brake Pads">>)
       [] n = "Engine Diagnostic" -> Task(6, "Engine", <<>>)
       [] n = "Spark Plug Replacement" -> Task(4, "Engine", <<"Spark Plugs">>)
       [] n = "AC Service" -> Task(6, "AC", <<"AC Cleaner">>)
       [] n = "Coolant Flush" -> Task(4, "General", <<"Coolant">>)
       [] n = "Transmission Service" -> Task(10, "General", <<"Transmission Fluid">>)
       [] n = "Battery Replacement" -> Task(2, "General", <<"Battery (12V)">>)
       [] n = "Tire Rotation" -> Task(2, "General", <<>>)
       [] n = "Wheel Alignment" -> Task(4, "General", <<>>)]

\* MemStorage.getServiceTask: the catalog entry, or undefined.
getServiceTask(name) ==
  IF name \in DOMAIN serviceTasks THEN Some(serviceTasks[name]) ELSE Undefined

\* ------------------------------------------------------ duration estimator
\* Step 1: the resolved catalog entries, in the order selected; unknown
\* names are skipped.
RECURSIVE selectedTaskDetails(_)
selectedTaskDetails(selectedTasks) ==
  IF selectedTasks = <<>> THEN <<>>
  ELSE getServiceTask(Head(selectedTasks)) \o selectedTaskDetails(Tail(selectedTasks))

RECURSIVE baseTime(_)
baseTime(details) ==
  IF details = <<>> THEN 0 ELSE Head(details).baseTimeHours + baseTime(Tail(details))

RECURSIVE requiredParts(_)
requiredParts(details) ==
  IF details = <<>> THEN <<>>
  ELSE Head(details).requiredParts \o requiredParts(Tail(details))

\* Age thresholds that already count a car of exactly 5 or 10 years.
carAgeFactorInclusive(d) ==
  LET carAge == CurrentYear - d.manufactureYear
  IN IF carAge >= 10 THEN 120 ELSE IF carAge >= 5 THEN 60 ELSE 0

\* Step 2: the factors, in 600ths.
carAgeFactor(d) ==
  LET carAge == CurrentYear - d.manufactureYear
  IN IF carAge > 10 THEN 120 ELSE IF carAge > 5 THEN 60 ELSE 0

healthFactor(d) == 3 * (100 - d.healthScore)

rustMultiplier(d) ==
  CASE d.rustLevel = "None" -> 0
    [] d.rustLevel = "Minor" -> 60
    [] d.rustLevel = "Moderate" -> 120
    [] d.rustLevel = "Severe" -> 240

damageMultiplier(d) ==
  CASE d.bodyDamage = "None" -> 0
    [] d.bodyDamage = "Minor" -> 30
    [] d.bodyDamage = "Moderate" -> 90
    [] d.bodyDamage = "Severe" -> 180

kmFactor(d) ==
  IF d.kmSinceLastService > 10000 THEN 90
  ELSE IF d.kmSinceLastService > 5000 THEN 48 ELSE 0

errorCodesFactor(d) == d.errorCodes * 150

batteryFactor(d) == IF d.fuelType = "Electric" THEN 2 * (100 - d.batterySOH) ELSE 0

fluidsFactor(d) == 2 * d.fluidDegradation

wearTearFactor(d) == 2 * d.wearTearScore

packageFactor(d) ==
  CASE d.servicePackage = "Basic" -> 0
    [] d.servicePackage = "Standard" -> 30
    [] d.servicePackage = "Premium" -> 72

approvalFactor(d) ==
  CASE d.customerApprovalSpeed = "Fast" -> 0
    [] d.customerApprovalSpeed = "Normal" -> 30
    [] d.customerApprovalSpeed = "Slow" -> 90

appointmentFactor(d) == IF d.appointmentType = "Walk-in" THEN 60 ELSE 0

peakHoursFactor(d) == IF d.peakHours THEN 48 ELSE 0

weatherFactor(d) ==
  CASE d.weather = "Clear" -> 0
    [] d.weather = "Rain" -> 30
    [] d.weather = "Extreme" -> 72

\* The shop load term, in HourUnits: 0.3 h from 6 live orders, 0.2 h from 4.
shopLoadFactor(liveCount) ==
  IF liveCount >= 6 THEN (3 * HourUnits) \div 10
  ELSE IF liveCount >= 4 THEN (2 * HourUnits) \div 10 ELSE 0

conditionAdjustment(base, d) ==
  (base * (carAgeFactor(d) + healthFactor(d) + rustMultiplier(d) + damageMultiplier(d)
           + kmFactor(d) + errorCodesFactor(d) + batteryFactor(d) + fluidsFactor(d)
           + wearTearFactor(d) + packageFactor(d) + approvalFactor(d)
           + appointmentFactor(d) + peakHoursFactor(d) + weatherFactor(d))) \div 600

predictedHours(d, liveCount) ==
  LET base == baseTime(selectedTaskDetails(d.selectedTasks))
  IN base + conditionAdjustment(base, d) + shopLoadFactor(liveCount)

\* --------------------------------------------------- business-hours scheduler
getHours(t) == (t % SecondsPerDay) \div 3600
getMinutes(t) == (t % 3600) \div 60

\* setHours(h, 0, 0, 0) on the day of t.
setHours(t, h) == (t \div SecondsPerDay) * SecondsPerDay + h * 3600

\* setDate(getDate() + 1).
nextDate(t) == t + SecondsPerDay

\* An alignment that forgets to move to the next day after closing time.
alignToWindowSameDay(start) ==
  LET sHour == getHours(start) * 60 + getMinutes(start)
  IN IF sHour < WORK_START * 60 \/ sHour >= WORK_END * 60
     THEN setHours(start, WORK_START)
     ELSE start

\* The window alignment of the start instant (sHour is kept in minutes).
alignToWindow(start) ==
  LET sHour == getHours(start) * 60 + getMinutes(start)
  IN IF sHour < WORK_START * 60 THEN setHours(start, WORK_START)
     ELSE IF sHour >= WORK_END * 60 THEN setHours(nextDate(start), WORK_START)
     ELSE start

\* The minutes left in the day when the window is taken to end at midnight.
minutesAvailableUntilMidnight(current) ==
  Max(0, MathRound(setHours(current, 24) - current, 60))

\* The minutes from current to the end of today's window.
minutesAvailable(current) ==
  Max(0, MathRound(setHours(current, WORK_END) - current, 60))

\* Whether the remainder is added to today's instant.
FitsToday(remaining, available) == remaining <= available

\* The while loop: consume the remaining minutes day by day.
RECURSIVE consume(_, _)
consume(current, remaining) ==
  IF ~(remaining > 0) THEN current
  ELSE IF FitsToday(remaining, minutesAvailable(current))
       THEN current + remaining * 60
       ELSE consume(setHours(nextDate(current), WORK_START),
                    remaining - minutesAvailable(current))

applyBusinessHours(start, hours) ==
  consume(alignToWindow(start), MathRound(hours * 60, HourUnits))

\* The seconds of instant 0..t that lie inside the daily windows
\* [WORK_START, WORK_END), and the window time between two instants.
windowSecondsUntil(t) ==
  (t \div SecondsPerDay) * (WORK_END - WORK_START) * 3600
    + Min((WORK_END - WORK_START) * 3600, Max(0, (t % SecondsPerDay) - WORK_START * 3600))

windowSecondsBetween(from, to) == windowSecondsUntil(to) - windowSecondsUntil(from)

\* ------------------------------------------------------------------ state
VARIABLES
  workers,            \* MemStorage.workers: position -> Worker
  machines,           \* MemStorage.machines: bayNumber -> MachineBay
  inventoryItems,     \* MemStorage.inventoryItems: partName -> Inventory
  activeServices,     \* MemStorage.activeServices: id -> ActiveService
  completedServices,  \* MemStorage.completedServices
  totalServiceTime,   \* MemStorage.totalServiceTime, in HourUnits
  completedRecords,   \* the completed-history log of receipts
  now,                \* the wall clock, in seconds
  response,           \* the last HTTP response
  calls,              \* how many requests of each kind were made
  bh,                 \* a call of applyBusinessHours: start, hours, result
  est,                \* a call of the estimator: request, live orders, result
  hist,               \* history: per worker, the create that last touched it
  loop                \* the event loop: handlers suspended at an await

vars == <<workers, machines, inventoryItems, activeServices, completedServices,
          totalServiceTime, completedRecords, now, response, calls, bh, est, hist,
          loop>>

repo == <<workers, machines, inventoryItems, activeServices, completedServices,
          totalServiceTime, completedRecords>>

\* The clock reads 09:59:58 of day 0 when the server starts.
ClockStart == 9 * 3600 + 59 * 60 + 58

\* The first three characters of a worker's random UUID, upper-cased, as a
\* number: the workers draw distinct prefixes.
IdPrefix(w) == w

\* "QUE", the id suffix of an order without technician (no UUID prefix).
QUE == 0

\* An id that no create produces.
UnknownId == [t |-> 0, wid |-> QUE]

initializeData(ratings) ==
  /\ workers = [w \in Workers |->
                  [skill |-> SkillOf(w), rating |-> ratings[w],
                   idPrefix |-> IdPrefix(w), loadPercent |-> 0,
                   activeJobs |-> <<>>, status |-> "Available"]]
  /\ machines = [b \in Bays |->
                   [isAvailable |-> TRUE, assignedWorkers |-> <<>>, currentLoad |-> 0]]
  /\ inventoryItems = inventoryData
  /\ activeServices = <<>>
  /\ completedServices = 0
  /\ totalServiceTime = 0
  /\ completedRecords = <<>>

\* No call of the estimator under way.
NoEstimate == [d |-> Undefined, liveCount |-> 0, result |-> Undefined]

NoBH == [start |-> 0, hours |-> 0, result |-> Undefined]

\* hist[w].id is the order whose create was the last request that assigned or
\* released worker w (UnknownId when that request was a complete, or there was
\* none), and hist[w].load the worker's loadPercent just before that create.
NoHist == [id |-> UnknownId, load |-> 0]

\* No handler is suspended and no batch of requests has been received.
NoLoop == [microtasks |-> <<>>, batch |-> <<>>, before |-> Undefined, pairs |-> 0]

InitShop ==
  /\ \E ratings \in RatingMaps : initializeData(ratings)
  /\ now = ClockStart
  /\ response = [op |-> "start", id |-> UnknownId, code |-> 200, warnings |-> <<>>]
  /\ calls = [create |-> 0, complete |-> 0, restock |-> 0, progress |-> 0]
  /\ hist = [w \in Workers |-> NoHist]
  /\ loop = NoLoop

Init ==
  /\ InitShop
  /\ bh = NoBH
  /\ est = NoEstimate

\* ---------------------------------------------------------- repository ops
getActiveService(id) ==
  IF id \in DOMAIN activeServices THEN Some(activeServices[id]) ELSE Undefined

getInventoryItem(partName) ==
  IF partName \in DOMAIN inventoryItems THEN Some(inventoryItems[partName]) ELSE Undefined

\* MemStorage.updateWorkerLoad on the worker record.
updateWorkerLoad(worker, loadPercent, activeJobs) ==
  [worker EXCEPT !.loadPercent = loadPercent,
                 !.activeJobs = activeJobs,
                 !.status = IF Len(activeJobs) = 0 THEN "Available" ELSE "Busy"]

\* MemStorage.updateMachineLoad on the bay record.
updateMachineLoad(machine, currentLoad, assignedWorkers) ==
  [machine EXCEPT !.currentLoad = currentLoad,
                  !.assignedWorkers = assignedWorkers,
                  !.isAvailable = Len(assignedWorkers) < MaxWorkersPerBay]

\* A repository that accepts the order and does not keep it.
createActiveServiceNowhere(services, service) == services

\* MemStorage.createActiveService: Map.set, which replaces an entry of the same id.
createActiveService(services, service) ==
  [id \in DOMAIN services \cup {service.id} |->
     IF id = service.id THEN service ELSE services[id]]

\* MemStorage.removeActiveService: Map.delete.
removeActiveService(services, id) ==
  [i \in DOMAIN services \ {id} |-> services[i]]

\* ------------------------------------------------------- intake requests
BestSignals(tasks, year) ==
  [selectedTasks |-> tasks, manufactureYear |-> year, healthScore |-> 100,
   rustLevel |-> "None", bodyDamage |-> "None", kmSinceLastService |-> 0,
   errorCodes |-> 0, fuelType |-> "Petrol", batterySOH |-> 100,
   fluidDegradation |-> 0, wearTearScore |-> 0, servicePackage |-> "Basic",
   customerApprovalSpeed |-> "Fast", appointmentType |-> "Appointment",
   peakHours |-> FALSE, weather |-> "Clear"]

WornSignals(tasks, year) ==
  [selectedTasks |-> tasks, manufactureYear |-> year, healthScore |-> 40,
   rustLevel |-> "Severe", bodyDamage |-> "Moderate", kmSinceLastService |-> 12000,
   errorCodes |-> 2, fuelType |-> "Electric", batterySOH |-> 70,
   fluidDegradation |-> 60, wearTearScore |-> 30, servicePackage |-> "Premium",
   customerApprovalSpeed |-> "Slow", appointmentType |-> "Walk-in",
   peakHours |-> TRUE, weather |-> "Extreme"]

\* The requests of the full model: one, two and three technicians needed, a
\* skilled task, a task name the catalog does not know.
Intakes ==
  { BestSignals(<<"Oil Change">>, CurrentYear),
    BestSignals(<<"Engine Diagnostic">>, CurrentYear),
    BestSignals(<<"Transmission Service">>, CurrentYear),
    WornSignals(<<"Brake Pad Replacement", "Transmission Service">>, 2000),
    BestSignals(<<"Undercoating">>, CurrentYear) }

\* ------------------------------------------------- POST /api/service-request
\* Step 3: the stock warning of one required part, from the quantity read.
StockWarning(partName, item) ==
  IF item.quantity = 0 THEN <<<<"is out of stock", partName>>>>
  ELSE IF item.quantity < item.minimumStock THEN <<<<"stock is running low", partName>>>>
  ELSE <<>>

RECURSIVE StockWarnings(_, _)
StockWarnings(parts, inv) ==
  IF parts = <<>> THEN <<>>
  ELSE (IF Head(parts) \in DOMAIN inv THEN StockWarning(Head(parts), inv[Head(parts)])
        ELSE <<>>) \o StockWarnings(Tail(parts), inv)

\* A decrement without the floor at 0.
ReducedStockUnclamped(quantity) == quantity - 1

\* Step 3: the quantity written back for a required part.
ReducedStock(quantity) == Max(0, quantity - 1)

ReduceInventory(parts, inv) ==
  [p \in DOMAIN inv |->
     IF p \in Range(parts) THEN [inv[p] EXCEPT !.quantity = ReducedStock(inv[p].quantity)]
     ELSE inv[p]]

\* Step 4: the category of the longest resolved task, "General" without one.
primarySkill(details) ==
  IF Len(details) > 0
  THEN StableSort(details, [t \in Range(details) |-> -t.baseTimeHours])[1].category
  ELSE "General"

\* A capacity test that admits a worker who already holds three jobs.
HasCapacityInclusive(w) == Len(w.activeJobs) <= MaxJobsPerWorker

\* Step 5: a worker can take one more job.
HasCapacity(w) == Len(w.activeJobs) < MaxJobsPerWorker

AllWorkers(ws) == [i \in 1..Cardinality(DOMAIN ws) |-> i]

skillMatchedWorkers(ws, skill) ==
  StableSort(
    FilterSeq(FilterSeq(AllWorkers(ws),
                        {w \in DOMAIN ws : ws[w].skill = skill \/ skill = "General"}),
              {w \in DOMAIN ws : HasCapacity(ws[w])}),
    [w \in DOMAIN ws |-> ws[w].loadPercent * 1000 - ws[w].rating])

numWorkersNeeded(hours) == Min(3, MathCeil(hours, 2 * HourUnits))

\* A fallback that takes the last technician with capacity, not the first.
assignWorkersFromEnd(ws, skill, hours) ==
  LET matched == skillMatchedWorkers(ws, skill)
      first == SubSeq(matched, 1, Min(numWorkersNeeded(hours), Len(matched)))
      anyAvailable == FilterSeq(AllWorkers(ws), {w \in DOMAIN ws : HasCapacity(ws[w])})
  IN IF Len(first) # 0 THEN first
     ELSE IF Len(anyAvailable) > 0 THEN <<anyAvailable[Len(anyAvailable)]>>
     ELSE <<>>

\* Step 5 with its fallback: the technicians assigned, in order.
assignWorkers(ws, skill, hours) ==
  LET matched == skillMatchedWorkers(ws, skill)
      first == SubSeq(matched, 1, Min(numWorkersNeeded(hours), Len(matched)))
      anyAvailable == FilterSeq(AllWorkers(ws), {w \in DOMAIN ws : HasCapacity(ws[w])})
  IN IF Len(first) # 0 THEN first
     ELSE IF Len(anyAvailable) > 0 THEN <<anyAvailable[1]>>
     ELSE <<>>

\* Step 6: a bay can take one more order.
BayQualifies(m) ==
  Len(m.assignedWorkers) < MaxWorkersPerBay /\ m.currentLoad < BayLoadLimit

availableMachines(ms) ==
  StableSort(FilterSeq([i \in 1..NumBays |-> i], {b \in DOMAIN ms : BayQualifies(ms[b])}),
             [b \in DOMAIN ms |-> ms[b].currentLoad])

\* Step 6: the shop is at capacity.
AtCapacity(liveCount) == liveCount >= ShopCapacity

\* A queue position that ignores the orders already queued.
FirstQueuePosition(services) == 1

\* Step 6: the position given to an order queued at capacity.
CapacityQueuePosition(services) ==
  Cardinality({i \in DOMAIN services : services[i].status = "Queued"}) + 1

\* Step 6: the queue decision, as <<assignedMachine, queuePosition, warnings>>.
assignMachine(services, available) ==
  IF AtCapacity(Cardinality(DOMAIN services))
  THEN <<QUEUED, Some(CapacityQueuePosition(services)), <<<<"Workshop at capacity">>>> >>
  ELSE IF Len(available) > 0
  THEN <<BayLabel(available[1]), Undefined, <<>> >>
  ELSE <<QUEUED, Some(1), <<<<"All machines are currently in use">>>> >>

\* Step 7: VOL_<timestamp to the second>_<first three characters of the lead
\* technician's id, or QUE>.
serviceId(ws, assigned, time) ==
  [t |-> time, wid |-> IF Len(assigned) > 0 THEN ws[assigned[1]].idPrefix ELSE QUE]

\* Step 10: the load of a worker after one more job.
LoadAfterAssign(loadPercent) == MathRound(Min(300, 3 * loadPercent + 100), 3)

AssignJobs(ws, assigned, id) ==
  [w \in DOMAIN ws |->
     IF w \in Range(assigned)
     THEN updateWorkerLoad(ws[w], LoadAfterAssign(ws[w].loadPercent),
                           Append(ws[w].activeJobs, id))
     ELSE ws[w]]

\* Step 11: the bay's technicians after the order's are added.
BayWorkersAfterAssign(bayWorkers, assigned) == Dedup(bayWorkers \o assigned)

OccupyBay(ms, b, assigned) ==
  [ms EXCEPT ![b] = updateMachineLoad(ms[b], Min(100, ms[b].currentLoad + BayLoadStep),
                                      BayWorkersAfterAssign(ms[b].assignedWorkers, assigned))]

\* The handler on a validated request d, received dt seconds after the last one.
ServiceRequest(d, dt) ==
  LET time == now + dt
      details == selectedTaskDetails(d.selectedTasks)
      hours == predictedHours(d, Cardinality(DOMAIN activeServices))
      parts == Dedup(requiredParts(details))
      assigned == assignWorkers(workers, primarySkill(details), hours)
      available == availableMachines(machines)
      decision == assignMachine(activeServices, available)
      queuePosition == decision[2]
      id == serviceId(workers, assigned, time)
      service ==
        [id |-> id, selectedTasks |-> d.selectedTasks, predictedHours |-> hours,
         estimatedCompletion |-> applyBusinessHours(time, hours), progress |-> 0,
         assignedWorkers |-> assigned, assignedMachine |-> decision[1],
         queuePosition |-> queuePosition,
         status |-> IF queuePosition # Undefined THEN "Queued" ELSE "In Progress"]
  IN /\ now' = time
     /\ inventoryItems' = ReduceInventory(parts, inventoryItems)
     /\ activeServices' = createActiveService(activeServices, service)
     /\ workers' = AssignJobs(workers, assigned, id)
     /\ machines' = IF queuePosition = Undefined /\ Len(available) > 0
                    THEN OccupyBay(machines, available[1], assigned)
                    ELSE machines
     /\ response' =
          [op |-> "create", id |-> id, code |-> 200,
           warnings |-> StockWarnings(parts, inventoryItems)
                        \o (IF assigned = <<>>
                            THEN <<<<"All workers are at maximum capacity">>>> ELSE <<>>)
                        \o decision[3]]
     /\ calls' = [calls EXCEPT !.create = @ + 1]
     /\ hist' = [w \in Workers |->
                  IF w \in Range(assigned)
                  THEN [id |-> id, load |-> workers[w].loadPercent] ELSE hist[w]]
     /\ UNCHANGED <<completedServices, totalServiceTime, completedRecords, bh, est, loop>>

\* A request arrives in the same second as the one before it, or in the next.
ElapsedSeconds == 0..1

Create ==
  /\ calls.create < MaxCreates
  /\ \E d \in Intakes, dt \in ElapsedSeconds : ServiceRequest(d, dt)

\* The requests of the capacity model: one skilled task, one technician needed.
CapIntakes == {BestSignals(<<"Engine Diagnostic">>, CurrentYear)}

\* Requests that arrive one per second.
CreateToCapacity ==
  /\ calls.create < MaxCapCreates
  /\ \E d \in CapIntakes : ServiceRequest(d, 1)

\* Requests that arrive in bursts, several within a second.
CreateInBurst ==
  /\ calls.create < MaxBurstCreates
  /\ \E d \in CapIntakes, dt \in ElapsedSeconds : ServiceRequest(d, dt)

\* --------------------------------------------- POST /api/complete-service/:id
\* The load of a worker after one job less.
LoadAfterRelease(loadPercent) == MathRound(Max(0, 3 * loadPercent - 100), 3)

ReleaseJobs(ws, service) ==
  [w \in DOMAIN ws |->
     IF w \in Range(service.assignedWorkers)
     THEN updateWorkerLoad(ws[w], LoadAfterRelease(ws[w].loadPercent),
                           FilterSeq(ws[w].activeJobs, Range(ws[w].activeJobs) \ {service.id}))
     ELSE ws[w]]

\* machines.find: the first bay that lists one of the order's technicians.
BayToRelease(ms, service) ==
  LET holding == {b \in DOMAIN ms :
                    Range(ms[b].assignedWorkers) \cap Range(service.assignedWorkers) # {}}
  IN IF holding = {} THEN Undefined
     ELSE Some(CHOOSE b \in holding : \A c \in holding : b <= c)

ReleaseBay(ms, service) ==
  LET found == BayToRelease(ms, service)
  IN IF found = Undefined THEN ms
     ELSE LET b == found[1]
          IN [ms EXCEPT ![b] =
                updateMachineLoad(ms[b], Max(0, ms[b].currentLoad - BayLoadStep),
                                  FilterSeq(ms[b].assignedWorkers,
                                            Range(ms[b].assignedWorkers)
                                              \ Range(service.assignedWorkers)))]

\* The receipt: amount = predictedHours * 250, in cents.
completedRecord(service) ==
  [id |-> service.id, selectedTasks |-> service.selectedTasks,
   predictedHours |-> service.predictedHours,
   assignedMachine |-> service.assignedMachine,
   assignedWorkers |-> service.assignedWorkers,
   amount |-> MathRound(service.predictedHours * 25, HourUnits \div 1000)]

\* storage.addCompletedServiceRecord: append to the history log.
addCompletedServiceRecord(records, record) == Append(records, record)

\* A not-found answer given only after the completion was counted.
ServiceNotFoundAfterCount(id) ==
  /\ response' = [op |-> "complete", id |-> id, code |-> 404, warnings |-> <<>>]
  /\ calls' = [calls EXCEPT !.complete = @ + 1]
  /\ completedServices' = completedServices + 1
  /\ UNCHANGED <<workers, machines, inventoryItems, activeServices,
                 totalServiceTime, completedRecords, now, bh, est, hist, loop>>

\* The handler's answer for an id that is not live.
ServiceNotFound(id) ==
  /\ response' = [op |-> "complete", id |-> id, code |-> 404, warnings |-> <<>>]
  /\ calls' = [calls EXCEPT !.complete = @ + 1]
  /\ UNCHANGED <<repo, now, bh, est, hist, loop>>

CompleteService(id) ==
  IF getActiveService(id) = Undefined
  THEN ServiceNotFound(id)
  ELSE LET service == getActiveService(id)[1]
       IN /\ workers' = ReleaseJobs(workers, service)
          /\ machines' = ReleaseBay(machines, service)
          /\ completedServices' = completedServices + 1
          /\ totalServiceTime' = totalServiceTime + service.predictedHours
          /\ completedRecords' =
               addCompletedServiceRecord(completedRecords, completedRecord(service))
          /\ activeServices' = removeActiveService(activeServices, id)
          /\ response' = [op |-> "complete", id |-> id, code |-> 200, warnings |-> <<>>]
          /\ calls' = [calls EXCEPT !.complete = @ + 1]
          /\ hist' = [w \in Workers |->
                       IF w \in Range(service.assignedWorkers) THEN NoHist ELSE hist[w]]
          /\ UNCHANGED <<inventoryItems, now, bh, est, loop>>

\* The ids a client asks to complete: the live ones, the ones on a receipt,
\* and one that never existed.
KnownIds ==
  DOMAIN activeServices \cup {completedRecords[i].id : i \in 1..Len(completedRecords)}
    \cup {UnknownId}

Complete ==
  /\ calls.complete < MaxCompletes
  /\ \E id \in KnownIds : CompleteService(id)

\* The requests other than create that the capacity model still admits.
CapCallsLeft == calls.complete + calls.progress < MaxCapCalls

CompleteAtCapacity ==
  /\ CapCallsLeft
  /\ \E id \in KnownIds : CompleteService(id)

\* ------------------------------------------ MemStorage.updateServiceProgress
ProgressValues == {50, 100}

updateServiceProgress(services, id, progress) ==
  IF id \in DOMAIN services
  THEN [services EXCEPT ![id] =
          [@ EXCEPT !.progress = progress,
                    !.status = IF progress >= 100 THEN "Completing" ELSE @]]
  ELSE services

UpdateProgress ==
  /\ CapCallsLeft
  /\ \E id \in DOMAIN activeServices, progress \in ProgressValues :
       /\ activeServices' = updateServiceProgress(activeServices, id, progress)
       /\ response' = [op |-> "progress", id |-> id, code |-> 200, warnings |-> <<>>]
  /\ calls' = [calls EXCEPT !.progress = @ + 1]
  /\ UNCHANGED <<workers, machines, inventoryItems, completedServices,
                 totalServiceTime, completedRecords, now, bh, est, hist, loop>>

\* ------------------------------------------------ POST /api/restock/:partName
\* MemStorage.updateStock.
updateStock(inv, partName, quantity) ==
  IF partName \in DOMAIN inv THEN [inv EXCEPT ![partName].quantity = quantity] ELSE inv

RestockPart(partName) ==
  LET item == getInventoryItem(partName)
  IN IF item = Undefined
     THEN /\ response' = [op |-> "restock", id |-> UnknownId, code |-> 404,
                          warnings |-> <<partName>>]
          /\ UNCHANGED <<repo, now, calls, bh, est, hist, loop>>
     ELSE /\ inventoryItems' =
               updateStock(inventoryItems, partName, item[1].quantity + RestockAmount)
          /\ response' = [op |-> "restock", id |-> UnknownId, code |-> 200,
                          warnings |-> <<partName>>]
          /\ calls' = [calls EXCEPT !.restock = @ + 1]
          /\ UNCHANGED <<workers, machines, activeServices, completedServices,
                         totalServiceTime, completedRecords, now, bh, est, hist, loop>>

RestockParts == {"Battery (12V)", "Wiper Blades"}

Restock ==
  /\ calls.restock < MaxRestocks
  /\ \E partName \in RestockParts : RestockPart(partName)

\* The requests of the stock model: the task whose part runs out first, and
\* that task selected twice.
StockIntakes ==
  { BestSignals(<<"Battery Replacement">>, CurrentYear),
    BestSignals(<<"Battery Replacement", "Battery Replacement">>, CurrentYear) }

CreateFromStock ==
  /\ calls.create < MaxStockCreates
  /\ \E d \in StockIntakes : ServiceRequest(d, 1)

\* The requests of the wear model: three technicians of any skill, or one
\* skilled technician.
WearIntakes ==
  { WornSignals(<<"Brake Pad Replacement", "Transmission Service">>, 2000),
    BestSignals(<<"Engine Diagnostic">>, CurrentYear) }

\* Requests that arrive one per second until technicians and bays run out.
CreateUnderWear ==
  /\ calls.create < MaxWearCreates
  /\ \E d \in WearIntakes : ServiceRequest(d, 1)

\* The order of the last response is completed before the next request.
CompleteUnderWear ==
  /\ calls.complete < MaxWearCompletes
  /\ response.op = "create"
  /\ CompleteService(response.id)

\* The request of the queue model: a long job that takes three technicians.
QueueIntakes ==
  { WornSignals(<<"Brake Pad Replacement", "Transmission Service">>, 2000) }

\* Requests that keep arriving, one per second.
CreateForQueue ==
  /\ calls.create < MaxQueueCreates
  /\ \E d \in QueueIntakes : ServiceRequest(d, 1)

\* As in the wear model, the order just created is the one completed.
CompleteFromQueue ==
  /\ calls.complete < MaxQueueCompletes
  /\ response.op = "create"
  /\ CompleteService(response.id)

\* The request of the degraded model: a long job with a task name the catalog
\* does not know.
DegradedIntakes ==
  { WornSignals(<<"Battery Replacement", "Transmission Service", "Undercoating">>,
                2000) }

\* Requests that go on, one per second, after stock, technicians and bays
\* have run out.
CreateDegraded ==
  /\ calls.create < MaxDegradedCreates
  /\ \E d \in DegradedIntakes : ServiceRequest(d, 1)

\* As in the wear model, the order just created is the one completed.
CompleteDegraded ==
  /\ calls.complete < MaxDegradedCompletes
  /\ response.op = "create"
  /\ CompleteService(response.id)

\* Long jobs that arrive in a rush, several within a second, while live
\* orders are completed.
CreateInRush ==
  /\ calls.create < MaxRushCreates
  /\ \E d \in QueueIntakes, dt \in ElapsedSeconds : ServiceRequest(d, dt)

CompleteInRush ==
  /\ calls.complete < MaxRushCompletes
  /\ \E id \in DOMAIN activeServices : CompleteService(id)

\* ----------------------------------------------- the handlers on the event loop
\* Both handlers are async functions: every `await storage.x()` performs the
\* repository access x at once and suspends the handler until the next
\* microtask.  A frame is a suspended handler; pc names the call it awaits.
Store ==
  [workers |-> workers, machines |-> machines, inventoryItems |-> inventoryItems,
   activeServices |-> activeServices, completedServices |-> completedServices,
   totalServiceTime |-> totalServiceTime, completedRecords |-> completedRecords]

CreateRequest(d) == [op |-> "create", d |-> Some(d), id |-> UnknownId]

CompleteRequest(id) == [op |-> "complete", d |-> Undefined, id |-> id]

\* The handler's locals on entry.
NewFrame(req, time) ==
  [op |-> req.op, d |-> req.d, id |-> req.id, time |-> time, pc |-> "entry", i |-> 0,
   liveCount |-> 0, queuedCount |-> 0, hours |-> 0, warnings |-> <<>>,
   assigned |-> <<>>, available |-> <<>>, queuePosition |-> Undefined,
   service |-> Undefined, code |-> 200]

FrameParts(f) == Dedup(requiredParts(selectedTaskDetails(f.d[1].selectedTasks)))

\* create, Step 1: the lookup of the next task name, or line 367 when the
\* names are used up; getActiveServices copies the live orders into an array.
NextTask(S, f, j) ==
  IF j <= Len(f.d[1].selectedTasks)
  THEN [S |-> S, f |-> [f EXCEPT !.pc = "getServiceTask", !.i = j]]
  ELSE [S |-> S,
        f |-> [f EXCEPT !.pc = "getActiveServices",
                        !.liveCount = Cardinality(DOMAIN S.activeServices),
                        !.queuedCount =
                          Cardinality({id \in DOMAIN S.activeServices :
                                         S.activeServices[id].status = "Queued"})]]

\* create, Step 3: the lookup of the next part, or Step 5's getWorkers.
NextPart(S, f, j) ==
  IF j <= Len(FrameParts(f))
  THEN [S |-> S, f |-> [f EXCEPT !.pc = "getInventoryItem", !.i = j]]
  ELSE [S |-> S, f |-> [f EXCEPT !.pc = "getWorkers"]]

\* create, Steps 10 and 11: the lookup of the next assigned technician, then
\* the bay update on the bay object chosen in Step 6, then the response.
NextAssigned(S, f, j) ==
  IF j <= Len(f.assigned)
  THEN [S |-> S, f |-> [f EXCEPT !.pc = "getWorker", !.i = j]]
  ELSE IF f.queuePosition = Undefined /\ Len(f.available) > 0
  THEN [S |-> [S EXCEPT !.machines = OccupyBay(S.machines, f.available[1], f.assigned)],
        f |-> [f EXCEPT !.pc = "updateMachineLoad"]]
  ELSE [S |-> S, f |-> [f EXCEPT !.pc = "done"]]

\* create: the code between two awaits, on the objects as they are now.
ResumeCreate(S, f) ==
  CASE f.pc = "entry" -> NextTask(S, f, 1)
    [] f.pc = "getServiceTask" -> NextTask(S, f, f.i + 1)
    [] f.pc = "getActiveServices" ->
         NextPart(S, [f EXCEPT !.hours = predictedHours(f.d[1], f.liveCount)], 1)
    [] f.pc = "getInventoryItem" ->
         LET p == FrameParts(f)[f.i]
         IN IF p \in DOMAIN S.inventoryItems
            THEN [S |-> [S EXCEPT !.inventoryItems[p].quantity = ReducedStock(@)],
                  f |-> [f EXCEPT !.pc = "updateStock",
                                  !.warnings = @ \o StockWarning(p, S.inventoryItems[p])]]
            ELSE NextPart(S, f, f.i + 1)
    [] f.pc = "updateStock" -> NextPart(S, f, f.i + 1)
    [] f.pc = "getWorkers" ->
         LET skill == primarySkill(selectedTaskDetails(f.d[1].selectedTasks))
             assigned == assignWorkers(S.workers, skill, f.hours)
         IN [S |-> S,
             f |-> [f EXCEPT !.pc = "getMachines", !.assigned = assigned,
                             !.warnings =
                               IF assigned = <<>>
                               THEN @ \o <<<<"All workers are at maximum capacity">>>>
                               ELSE @]]
    [] f.pc = "getMachines" ->
         LET available == availableMachines(S.machines)
             decision ==
               IF AtCapacity(f.liveCount)
               THEN <<QUEUED, Some(f.queuedCount + 1), <<<<"Workshop at capacity">>>> >>
               ELSE IF Len(available) > 0
               THEN <<BayLabel(available[1]), Undefined, <<>> >>
               ELSE <<QUEUED, Some(1), <<<<"All machines are currently in use">>>> >>
             id == serviceId(S.workers, f.assigned, f.time)
             service ==
               [id |-> id, selectedTasks |-> f.d[1].selectedTasks,
                predictedHours |-> f.hours,
                estimatedCompletion |-> applyBusinessHours(f.time, f.hours),
                progress |-> 0, assignedWorkers |-> f.assigned,
                assignedMachine |-> decision[1], queuePosition |-> decision[2],
                status |-> IF decision[2] # Undefined THEN "Queued" ELSE "In Progress"]
         IN [S |-> [S EXCEPT !.activeServices = createActiveService(@, service)],
             f |-> [f EXCEPT !.pc = "createActiveService", !.id = id,
                             !.available = available, !.queuePosition = decision[2],
                             !.warnings = @ \o decision[3]]]
    [] f.pc = "createActiveService" -> NextAssigned(S, f, 1)
    [] f.pc = "getWorker" ->
         LET w == f.assigned[f.i]
         IN [S |-> [S EXCEPT !.workers[w] =
                      updateWorkerLoad(@, LoadAfterAssign(@.loadPercent),
                                       Append(@.activeJobs, f.id))],
             f |-> [f EXCEPT !.pc = "updateWorkerLoad"]]
    [] f.pc = "updateWorkerLoad" -> NextAssigned(S, f, f.i + 1)
    [] f.pc = "updateMachineLoad" -> [S |-> S, f |-> [f EXCEPT !.pc = "done"]]

\* complete: the lookup of the next technician to free, or getMachines.
NextRelease(S, f, j) ==
  IF j <= Len(f.service[1].assignedWorkers)
  THEN [S |-> S, f |-> [f EXCEPT !.pc = "getWorker", !.i = j]]
  ELSE [S |-> S, f |-> [f EXCEPT !.pc = "getMachines"]]

addCompletedService(S, serviceTime) ==
  [S EXCEPT !.completedServices = @ + 1, !.totalServiceTime = @ + serviceTime]

\* complete: the lookups of the technicians' names, then the receipt.
NextName(S, f, j) ==
  IF j <= Len(f.service[1].assignedWorkers)
  THEN [S |-> S, f |-> [f EXCEPT !.pc = "getWorkerName", !.i = j]]
  ELSE [S |-> [S EXCEPT !.completedRecords =
                 addCompletedServiceRecord(@, completedRecord(f.service[1]))],
        f |-> [f EXCEPT !.pc = "addCompletedServiceRecord"]]

\* complete: the code between two awaits, on the objects as they are now.
ResumeComplete(S, f) ==
  CASE f.pc = "entry" ->
         [S |-> S,
          f |-> [f EXCEPT !.pc = "getActiveService",
                          !.service = IF f.id \in DOMAIN S.activeServices
                                      THEN Some(S.activeServices[f.id]) ELSE Undefined]]
    [] f.pc = "getActiveService" ->
         IF f.service = Undefined
         THEN [S |-> S, f |-> [f EXCEPT !.pc = "done", !.code = 404]]
         ELSE NextRelease(S, f, 1)
    [] f.pc = "getWorker" ->
         LET w == f.service[1].assignedWorkers[f.i]
         IN [S |-> [S EXCEPT !.workers[w] =
                      updateWorkerLoad(@, LoadAfterRelease(@.loadPercent),
                                       FilterSeq(@.activeJobs, Range(@.activeJobs) \ {f.id}))],
             f |-> [f EXCEPT !.pc = "updateWorkerLoad"]]
    [] f.pc = "updateWorkerLoad" -> NextRelease(S, f, f.i + 1)
    [] f.pc = "getMachines" ->
         IF BayToRelease(S.machines, f.service[1]) # Undefined
         THEN [S |-> [S EXCEPT !.machines = ReleaseBay(@, f.service[1])],
               f |-> [f EXCEPT !.pc = "updateMachineLoad"]]
         ELSE [S |-> addCompletedService(S, f.service[1].predictedHours),
               f |-> [f EXCEPT !.pc = "addCompletedService"]]
    [] f.pc = "updateMachineLoad" ->
         [S |-> addCompletedService(S, f.service[1].predictedHours),
          f |-> [f EXCEPT !.pc = "addCompletedService"]]
    [] f.pc = "addCompletedService" -> NextName(S, f, 1)
    [] f.pc = "getWorkerName" -> NextName(S, f, f.i + 1)
    [] f.pc = "addCompletedServiceRecord" ->
         [S |-> [S EXCEPT !.activeServices = removeActiveService(@, f.id)],
          f |-> [f EXCEPT !.pc = "removeActiveService"]]
    [] f.pc = "removeActiveService" -> [S |-> S, f |-> [f EXCEPT !.pc = "done"]]

\* One run of a handler from where it was suspended to its next await.
Resume(S, f) == IF f.op = "create" THEN ResumeCreate(S, f) ELSE ResumeComplete(S, f)

\* A handler run alone from its entry to its response: the serial execution.
RECURSIVE RunToEnd(_, _)
RunToEnd(S, f) ==
  IF f.pc = "done" THEN S
  ELSE LET r == Resume(S, f) IN RunToEnd(r.S, r.f)

RECURSIVE RunSerially(_, _, _)
RunSerially(S, reqs, time) ==
  IF reqs = <<>> THEN S
  ELSE RunSerially(RunToEnd(S, NewFrame(Head(reqs), time)), Tail(reqs), time)

\* The repository methods do no I/O: their promises are settled when they are
\* returned, so the continuation of every suspended handler runs before the
\* next request callback, and requests are received only on an empty
\* microtask queue.  Requests parsed from one chunk of a connection are
\* received together.
ReceivesRequests(microtasks) == microtasks = <<>>

SetStore(S) ==
  /\ workers' = S.workers
  /\ machines' = S.machines
  /\ inventoryItems' = S.inventoryItems
  /\ activeServices' = S.activeServices
  /\ completedServices' = S.completedServices
  /\ totalServiceTime' = S.totalServiceTime
  /\ completedRecords' = S.completedRecords

\* The handlers of a batch run one after the other up to their first await.
RECURSIVE StartAll(_, _, _)
StartAll(S, reqs, time) ==
  IF reqs = <<>> THEN [S |-> S, frames |-> <<>>]
  ELSE LET r == Resume(S, NewFrame(Head(reqs), time))
           rest == StartAll(r.S, Tail(reqs), time)
       IN [S |-> rest.S, frames |-> <<r.f>> \o rest.frames]

LoopIntakes ==
  { BestSignals(<<"Engine Diagnostic">>, CurrentYear),
    BestSignals(<<"Oil Change">>, CurrentYear) }

LoopRequests ==
  {CreateRequest(d) : d \in LoopIntakes}
    \cup (IF calls.complete < MaxLoopCompletes
          THEN {CompleteRequest(id) : id \in DOMAIN activeServices} ELSE {})

\* One request, or two requests received together.
Batches ==
  {<<r>> : r \in LoopRequests}
    \cup (IF loop.pairs < MaxPairs THEN LoopRequests \X LoopRequests ELSE {})

\* The HTTP server hands a batch of requests to their handlers.
Receive ==
  /\ ReceivesRequests(loop.microtasks)
  /\ calls.create + calls.complete < MaxLoopRequests
  /\ \E reqs \in Batches :
       LET started == StartAll(Store, reqs, now + 1)
       IN /\ SetStore(started.S)
          /\ now' = now + 1
          /\ loop' = [microtasks |-> started.frames, batch |-> reqs,
                      before |-> Some(Store),
                      pairs |-> loop.pairs + (IF Len(reqs) = 2 THEN 1 ELSE 0)]
          /\ UNCHANGED <<response, calls, bh, est, hist>>

\* The microtask at the head of the queue resumes its handler, which runs to
\* its next await and is queued again, or answers and ends.
RunMicrotask ==
  /\ loop.microtasks # <<>>
  /\ LET r == Resume(Store, Head(loop.microtasks))
     IN /\ SetStore(r.S)
        /\ IF r.f.pc = "done"
           THEN /\ loop' = [loop EXCEPT !.microtasks = Tail(@)]
                /\ response' = [op |-> r.f.op, id |-> r.f.id, code |-> r.f.code,
                                warnings |-> r.f.warnings]
                /\ calls' = IF r.f.op = "create"
                            THEN [calls EXCEPT !.create = @ + 1]
                            ELSE [calls EXCEPT !.complete = @ + 1]
           ELSE /\ loop' = [loop EXCEPT !.microtasks = Append(Tail(@), r.f)]
                /\ UNCHANGED <<response, calls>>
        /\ UNCHANGED <<now, bh, est, hist>>

\* ------------------------------------------------------ applyBusinessHours
\* Start instants on day 0: every hour, on the half hour and 20 seconds past.
BHStarts ==
  {h * 3600 + m * 60 + sec : h \in 0..23, m \in {0, 29, 30}, sec \in {0, 20}}

\* Durations in HourUnits: the half hours up to MaxHours, 31 minutes, and
\* 0.525 hours (31.5 minutes, an oil change with the Standard package).
BHHours ==
  {n * (HourUnits \div 2) : n \in 0..(2 * MaxHours)}
    \cup {31 * (HourUnits \div 60), 21 * (HourUnits \div 40)}

InitHours ==
  /\ InitShop
  /\ est = NoEstimate
  /\ bh \in [start : BHStarts, hours : BHHours, result : {Undefined}]

Project ==
  /\ bh.result = Undefined
  /\ bh' = [bh EXCEPT !.result = Some(applyBusinessHours(bh.start, bh.hours))]
  /\ UNCHANGED <<repo, now, response, calls, est, hist, loop>>

\* ------------------------------------------------------------ the estimator
\* The task selections estimated: one task, two tasks, a name the catalog
\* does not know, alone and beside a known one.
EstimateTasks ==
  { <<"Oil Change">>, <<"Engine Diagnostic">>,
    <<"Brake Pad Replacement", "Transmission Service">>,
    <<"Undercoating">>, <<"Oil Change", "Undercoating">> }

\* manufactureYear: z.number().min(2000).max(new Date().getFullYear()).
ManufactureYears == 2000..CurrentYear

\* Requests in best condition, with an electric drive, with one signal off
\* its best value, and in worn condition.
EstimateIntakes ==
  {BestSignals(t, y) : t \in EstimateTasks, y \in ManufactureYears}
    \cup {[BestSignals(t, y) EXCEPT !.fuelType = "Electric"] :
            t \in EstimateTasks, y \in ManufactureYears}
    \cup {[BestSignals(t, CurrentYear) EXCEPT !.servicePackage = "Standard"] :
            t \in EstimateTasks}
    \cup {[BestSignals(t, CurrentYear) EXCEPT !.peakHours = TRUE] : t \in EstimateTasks}
    \cup {WornSignals(t, y) : t \in EstimateTasks, y \in ManufactureYears}

InitEstimate ==
  /\ InitShop
  /\ bh = NoBH
  /\ est \in [d : EstimateIntakes, liveCount : 0..MaxLiveCount, result : {Undefined}]

Estimate ==
  /\ est.result = Undefined
  /\ est' = [est EXCEPT !.result = Some(predictedHours(est.d, est.liveCount))]
  /\ UNCHANGED <<repo, now, response, calls, bh, hist, loop>>

\* ------------------------------------------------------------ specifications
Next == Create \/ Complete

Spec == Init /\ [][Next]_vars

\* The shop driven to and beyond its capacity by requests of one kind.
NextCap == CreateToCapacity \/ CompleteAtCapacity \/ UpdateProgress

SpecCap == Init /\ [][NextCap]_vars

\* Bursts of requests of one kind, and completions.
NextBurst == CreateInBurst \/ Complete

SpecBurst == Init /\ [][NextBurst]_vars

\* Requests that use up technicians and bays, and completions.
NextWear == CreateUnderWear \/ CompleteUnderWear

SpecWear == Init /\ [][NextWear]_vars

\* Long jobs that keep arriving, some completed as soon as they are created.
NextQueue == CreateForQueue \/ CompleteFromQueue

SpecQueue == Init /\ [][NextQueue]_vars

\* Requests handled on the event loop, at most MaxPairs times two at once.
NextLoop == Receive \/ RunMicrotask

SpecLoop == Init /\ [][NextLoop]_vars

\* Requests served in a degraded way.
NextDegraded == CreateDegraded \/ CompleteDegraded

SpecDegraded == Init /\ [][NextDegraded]_vars

\* Long jobs in a rush.
NextRush == CreateInRush \/ CompleteInRush

SpecRush == Init /\ [][NextRush]_vars

\* Requests that use up a part, and restocks.
NextStock == CreateFromStock \/ Restock

SpecStock == Init /\ [][NextStock]_vars

\* applyBusinessHours on its own.
NextHours == Project

SpecHours == InitHours /\ [][NextHours]_vars

\* The estimator on its own.
NextEstimate == Estimate

SpecEstimate == InitEstimate /\ [][NextEstimate]_vars

\* ------------------------------------------------------------------ claims
\* C1: after any sequence of create and complete requests every technician
\* has at most three entries in activeJobs.
C1_TechnicianCap ==
  \A w \in Workers : Len(workers[w].activeJobs) <= 3

\* A technician holds three jobs and a further request was still served.
C1_Witness ==
  /\ \E w \in Workers : Len(workers[w].activeJobs) = 3
  /\ calls.create > 3
  /\ response.op = "create"

\* C2: every bay has at most three entries in assignedWorkers, also when a
\* bay that already holds technicians receives a second order.
C2_BayCap ==
  \A b \in Bays : Len(machines[b].assignedWorkers) <= 3

\* C3: at most six live orders have a status other than Queued.
C3_SixInService ==
  Cardinality({id \in DOMAIN activeServices : activeServices[id].status # "Queued"}) <= 6

\* C4: a create issued while six or more orders are live yields an order with
\* status Queued, assignedMachine "QUEUED" and queuePosition one more than the
\* number of live orders that were Queued just before.
C4_QueuedAtCapacity ==
  [][(calls'.create = calls.create + 1 /\ Cardinality(DOMAIN activeServices) >= 6)
       => LET created == activeServices'[response'.id]
              queuedBefore == {id \in DOMAIN activeServices :
                                 activeServices[id].status = "Queued"}
          IN /\ created.status = "Queued"
             /\ created.assignedMachine = QUEUED
             /\ created.queuePosition = Some(Cardinality(queuedBefore) + 1)]_vars

\* A create at capacity found an order already queued and took position 2.
C4_Witness ==
  /\ response.op = "create"
  /\ response.id \in DOMAIN activeServices
  /\ activeServices[response.id].queuePosition = Some(2)
  /\ Cardinality(DOMAIN activeServices) >= 8

\* C5: completing an order created In Progress on bay B lowers B's load by 50
\* (not below 0), removes the order's technicians from B and leaves every
\* other bay as it was; completing a Queued order changes no bay.
C5_ReleasesOwnBay ==
  [][(calls'.complete = calls.complete + 1 /\ response'.code = 200)
       => LET O == activeServices[response'.id]
          IN IF O.assignedMachine = QUEUED
             THEN machines' = machines
             ELSE LET B == O.assignedMachine[2]
                  IN /\ machines'[B].currentLoad = Max(0, machines[B].currentLoad - 50)
                     /\ Range(machines'[B].assignedWorkers)
                          \cap Range(O.assignedWorkers) = {}
                     /\ \A b \in Bays \ {B} : machines'[b] = machines[b]]_vars

\* C6: completing order O removes O's id from the activeJobs of each of its
\* technicians T and returns T's loadPercent to its value just before O was
\* created, when no other order involving T was created or completed since.
C6_LoadRoundTrip ==
  [][(calls'.complete = calls.complete + 1 /\ response'.code = 200)
       => \A T \in Range(activeServices[response'.id].assignedWorkers) :
            hist[T].id = response'.id
              => /\ response'.id \notin Range(workers'[T].activeJobs)
                 /\ workers'[T].loadPercent = hist[T].load]_vars

\* C7: a complete request for an id that is not live answers not-found and
\* changes nothing, so the second completion of an order is a no-op.
C7_NotFoundNoEffect ==
  [][(calls'.complete = calls.complete + 1 /\ response'.id \notin DOMAIN activeServices)
       => (response'.code = 404 /\ UNCHANGED repo)]_vars

\* An order that is on a receipt was completed again and found missing.
C7_Witness ==
  /\ response.op = "complete"
  /\ response.code = 404
  /\ \E i \in 1..Len(completedRecords) : completedRecords[i].id = response.id
  /\ completedServices = Len(completedRecords)

\* C8: after any sequence of create and restock requests every stock
\* quantity is at least 0.
C8_StockNotNegative ==
  \A p \in PartNames : inventoryItems[p].quantity >= 0

\* A request needed a part that was already out of stock, and it stayed at 0.
C8_Witness ==
  /\ response.op = "create"
  /\ <<"is out of stock", "Battery (12V)">> \in Range(response.warnings)
  /\ inventoryItems["Battery (12V)"].quantity = 0

\* C9: for a duration above 0 the instant applyBusinessHours returns has a
\* local time of day from 10:00 inclusive to 19:00 exclusive.
C9_ResultInsideWindow ==
  (bh.result # Undefined /\ bh.hours > 0)
    => LET timeOfDay == bh.result[1] % SecondsPerDay
       IN 10 * 3600 <= timeOfDay /\ timeOfDay < 19 * 3600

\* C10 as stated: one hour from 18:30 on day 0 ends at 11:00 on day 1.
C10_EndsAtEleven ==
  (bh.result # Undefined /\ bh.start = 18 * 3600 + 30 * 60 /\ bh.hours = HourUnits)
    => bh.result = Some(SecondsPerDay + 11 * 3600)

\* C10 amended: one hour from 18:30 on day 0 ends at 10:30 on day 1, the 30
\* minutes left before closing on day 0 being counted.
C10_EndsAtHalfPastTen ==
  (bh.result # Undefined /\ bh.start = 18 * 3600 + 30 * 60 /\ bh.hours = HourUnits)
    => bh.result = Some(SecondsPerDay + 10 * 3600 + 30 * 60)

\* applyBusinessHours has answered for one hour from 18:30.
C10_Witness ==
  /\ bh.result # Undefined
  /\ bh.start = 18 * 3600 + 30 * 60
  /\ bh.hours = HourUnits

\* C11 as stated: from a start before 10:00, or at or after 19:00, a duration
\* d of at most 9 hours ends exactly d after 10:00 of the same day, or of the
\* next day (compared in tenths of a second).
C11_TenPlusDuration ==
  (bh.result # Undefined /\ 0 < bh.hours /\ bh.hours <= 9 * HourUnits)
    => LET timeOfDay == bh.start % SecondsPerDay
           day == bh.start \div SecondsPerDay
       IN /\ timeOfDay < 10 * 3600
               => 10 * bh.result[1]
                    = 10 * (day * SecondsPerDay + 10 * 3600) + (3600 * bh.hours) \div (HourUnits \div 10)
          /\ timeOfDay >= 19 * 3600
               => 10 * bh.result[1]
                    = 10 * ((day + 1) * SecondsPerDay + 10 * 3600)
                        + (3600 * bh.hours) \div (HourUnits \div 10)

\* C11 amended: the result is 10:00 of the same day (start before 10:00) or of
\* the next day (start at or after 19:00) plus d rounded to whole minutes.
C11_TenPlusRoundedMinutes ==
  (bh.result # Undefined /\ 0 < bh.hours /\ bh.hours <= 9 * HourUnits)
    => LET timeOfDay == bh.start % SecondsPerDay
           day == bh.start \div SecondsPerDay
           minutes == (2 * 60 * bh.hours + HourUnits) \div (2 * HourUnits)
       IN /\ timeOfDay < 10 * 3600
               => bh.result[1] = day * SecondsPerDay + 10 * 3600 + 60 * minutes
          /\ timeOfDay >= 19 * 3600
               => bh.result[1] = (day + 1) * SecondsPerDay + 10 * 3600 + 60 * minutes

\* applyBusinessHours has answered for a start after closing time and a
\* duration that is not a whole number of minutes.
C11_Witness ==
  /\ bh.result # Undefined
  /\ bh.start % SecondsPerDay >= 19 * 3600
  /\ bh.hours = 21 * (HourUnits \div 40)

\* C12: the time inside the daily windows between the aligned start and the
\* returned instant is the duration rounded to whole minutes.
C12_WorkConserved ==
  bh.result # Undefined
    => windowSecondsBetween(alignToWindow(bh.start), bh.result[1])
         = 60 * ((2 * 60 * bh.hours + HourUnits) \div (2 * HourUnits))

\* C13 as stated: with every listed condition signal at its best value and
\* fewer than 4 live orders, predictedHours is the summed baseTimeHours of the
\* resolved tasks, for every manufacture year the validation accepts.
C13_BestIsBaseTime ==
  (est.result # Undefined /\ est.liveCount < 4
     /\ est.d.healthScore = 100 /\ est.d.rustLevel = "None" /\ est.d.bodyDamage = "None"
     /\ est.d.kmSinceLastService = 0 /\ est.d.errorCodes = 0 /\ est.d.batterySOH = 100
     /\ est.d.fluidDegradation = 0 /\ est.d.wearTearScore = 0
     /\ est.d.servicePackage = "Basic" /\ est.d.customerApprovalSpeed = "Fast"
     /\ est.d.weather = "Clear" /\ ~est.d.peakHours /\ est.d.appointmentType = "Appointment")
    => est.result = Some(baseTime(selectedTaskDetails(est.d.selectedTasks)))

\* C13 amended: the same for every manufacture year at most 5 years before
\* the current year.
C13_BestRecentIsBaseTime ==
  (est.result # Undefined /\ est.liveCount < 4
     /\ CurrentYear - est.d.manufactureYear <= 5
     /\ est.d.healthScore = 100 /\ est.d.rustLevel = "None" /\ est.d.bodyDamage = "None"
     /\ est.d.kmSinceLastService = 0 /\ est.d.errorCodes = 0 /\ est.d.batterySOH = 100
     /\ est.d.fluidDegradation = 0 /\ est.d.wearTearScore = 0
     /\ est.d.servicePackage = "Basic" /\ est.d.customerApprovalSpeed = "Fast"
     /\ est.d.weather = "Clear" /\ ~est.d.peakHours /\ est.d.appointmentType = "Appointment")
    => est.result = Some(baseTime(selectedTaskDetails(est.d.selectedTasks)))

\* The estimate of a two-task request in best condition for a car of exactly
\* 5 years, with 3 live orders.
C13_Witness ==
  /\ est.result = Some(9 * (HourUnits \div 2))
  /\ est.d = BestSignals(<<"Brake Pad Replacement", "Transmission Service">>, CurrentYear - 5)
  /\ est.liveCount = 3

\* C17: for every validated request and every number of live orders the
\* estimate is above 0.
C17_EstimatePositive ==
  est.result # Undefined => est.result[1] > 0

\* C15: whenever no order is live, every technician has no active job, load
\* 0 and status Available, and every bay has no technician and load 0.
C15_CleanWhenIdle ==
  DOMAIN activeServices = {}
    => /\ \A w \in Workers :
            /\ workers[w].activeJobs = <<>>
            /\ workers[w].loadPercent = 0
            /\ workers[w].status = "Available"
       /\ \A b \in Bays :
            /\ machines[b].assignedWorkers = <<>>
            /\ machines[b].currentLoad = 0

\* C20: a create decrements every distinct required part that is in stock by
\* one, not below 0, once even when several selected tasks require it, and
\* warns about the part exactly when the quantity after the decrement is 0
\* or below minimumStock.
C20_StockWarning ==
  [][calls'.create = calls.create + 1
       => LET created == activeServices'[response'.id]
              needed == {p \in PartNames :
                           \E i \in 1..Len(created.selectedTasks) :
                             /\ created.selectedTasks[i] \in DOMAIN serviceTasks
                             /\ p \in Range(serviceTasks[created.selectedTasks[i]].requiredParts)}
          IN \A p \in needed :
               LET after == inventoryItems'[p].quantity
               IN /\ after = Max(0, inventoryItems[p].quantity - 1)
                  /\ (after = 0 \/ after < inventoryItems[p].minimumStock)
                       <=> \E x \in Range(response'.warnings) : Len(x) = 2 /\ x[2] = p]_vars

\* C16: a create with fewer than 6 live orders and no bay with fewer than 3
\* technicians and a load below 90 queues the order: assignedMachine
\* "QUEUED", status Queued, queuePosition one more than the number of live
\* orders that were Queued just before.
C16_QueuedWithoutBay ==
  [][(/\ calls'.create = calls.create + 1
      /\ Cardinality(DOMAIN activeServices) < 6
      /\ \A b \in Bays : ~(Len(machines[b].assignedWorkers) < 3 /\ machines[b].currentLoad < 90))
       => LET created == activeServices'[response'.id]
              queuedBefore == {id \in DOMAIN activeServices :
                                 activeServices[id].status = "Queued"}
          IN /\ created.assignedMachine = QUEUED
             /\ created.status = "Queued"
             /\ created.queuePosition = Some(Cardinality(queuedBefore) + 1)]_vars

\* C18: when n >= 1 technicians match the skill (all when it is General) and
\* hold fewer than 3 jobs, a create assigns the first min(k, n) of them by
\* ascending load, then descending rating, k = clamp(ceil(hours / 2), 1, 3);
\* no qualifying technician left out comes before a selected one.
C18_TechnicianSelection ==
  [][calls'.create = calls.create + 1
       => LET created == activeServices'[response'.id]
              skill == primarySkill(selectedTaskDetails(created.selectedTasks))
              qualifying == {w \in Workers :
                               /\ skill = "General" \/ workers[w].skill = skill
                               /\ Len(workers[w].activeJobs) < 3}
              n == Cardinality(qualifying)
              k == Max(1, Min(3, -((-created.predictedHours) \div (2 * HourUnits))))
              A == created.assignedWorkers
              Before(u, v) == \/ workers[u].loadPercent < workers[v].loadPercent
                              \/ /\ workers[u].loadPercent = workers[v].loadPercent
                                 /\ workers[u].rating > workers[v].rating
          IN n >= 1
               => /\ Len(A) = Min(k, n)
                  /\ Cardinality(Range(A)) = Len(A)
                  /\ Range(A) \subseteq qualifying
                  /\ \A i, j \in 1..Len(A) : i < j => ~Before(A[j], A[i])
                  /\ \A u \in qualifying \ Range(A), v \in Range(A) : ~Before(u, v)]_vars

\* C19: when no technician of the skill has capacity, a create assigns the
\* first technician in repository order with fewer than 3 jobs; when no
\* technician has capacity it assigns none, warns, still commits the order,
\* and the order id ends with _QUE.
C19_DegradedAllocation ==
  [][calls'.create = calls.create + 1
       => LET created == activeServices'[response'.id]
              skill == primarySkill(selectedTaskDetails(created.selectedTasks))
              withCapacity == {w \in Workers : Len(workers[w].activeJobs) < 3}
              matched == {w \in withCapacity : skill = "General" \/ workers[w].skill = skill}
          IN /\ (matched = {} /\ withCapacity # {})
                  => created.assignedWorkers
                       = <<CHOOSE w \in withCapacity : \A v \in withCapacity : w <= v>>
             /\ withCapacity = {}
                  => /\ created.assignedWorkers = <<>>
                     /\ <<"All workers are at maximum capacity">> \in Range(response'.warnings)
                     /\ response'.id.wid = QUE
                     /\ created.id = response'.id]_vars

\* A request found every technician full and was committed without one,
\* after an earlier request had fallen back to a technician of another skill.
C19_Witness ==
  /\ response.op = "create"
  /\ response.id \in DOMAIN activeServices
  /\ activeServices[response.id].assignedWorkers = <<>>
  /\ \E id \in DOMAIN activeServices :
       /\ activeServices[id].selectedTasks = <<"Engine Diagnostic">>
       /\ activeServices[id].assignedWorkers # <<>>
       /\ workers[activeServices[id].assignedWorkers[1]].skill # "Engine"

\* C14: create and complete are atomic with respect to the repository: when
\* the handlers of two requests received together have all answered, the
\* repository is what running the two handlers one after the other, in one of
\* the two orders, leaves behind.
C14_SerialOutcome ==
  (loop.microtasks = <<>> /\ Len(loop.batch) = 2)
    => \/ Store = RunSerially(loop.before[1], loop.batch, now)
       \/ Store = RunSerially(loop.before[1], <<loop.batch[2], loop.batch[1]>>, now)

\* C23: an order's status only moves forward along Queued -> In Progress ->
\* Completing -> removed: it becomes Completing only from In Progress and
\* only when its progress reaches 100, and a Completing order never goes back.
C23_LifecycleForward ==
  [][\A id \in DOMAIN activeServices \cap DOMAIN activeServices' :
       LET before == activeServices[id]
           after == activeServices'[id]
       IN /\ (after.status = "Completing" /\ before.status # "Completing")
               => (before.status = "In Progress" /\ after.progress >= 100)
          /\ before.status = "Completing" => after.status = "Completing"
          /\ before.status = "In Progress" => after.status # "Queued"]_vars

\* C24: for every live order, queuePosition is present iff status is Queued
\* iff assignedMachine is "QUEUED"; every other live order is on "Bay n" for
\* an existing bay n.
C24_QueueFieldsAgree ==
  \A id \in DOMAIN activeServices :
    LET o == activeServices[id]
    IN /\ (o.queuePosition # Undefined) <=> (o.status = "Queued")
       /\ (o.queuePosition # Undefined) <=> (o.assignedMachine = QUEUED)
       /\ o.assignedMachine # QUEUED => \E b \in Bays : o.assignedMachine = BayLabel(b)

\* C25: a create that queues the order leaves every technician's activeJobs,
\* loadPercent and status and every bay's assignedWorkers and currentLoad
\* unchanged.
C25_QueuedTakesNoSlot ==
  [][(/\ calls'.create = calls.create + 1
      /\ activeServices'[response'.id].status = "Queued")
       => (workers' = workers /\ machines' = machines)]_vars

\* C26: every technician's loadPercent is 0, 33, 66 or 99 for 0, 1, 2 or 3
\* active jobs.
C26_LoadFromJobs ==
  \A w \in Workers :
    /\ Len(workers[w].activeJobs) <= 3
    /\ workers[w].loadPercent = 33 * Len(workers[w].activeJobs)

\* C27: the queuePosition values of the live Queued orders are pairwise
\* distinct and are exactly 1..n for n Queued orders.
C27_QueueIsRank ==
  LET queued == {id \in DOMAIN activeServices : activeServices[id].status = "Queued"}
  IN /\ \A a, b \in queued :
          a # b => activeServices[a].queuePosition # activeServices[b].queuePosition
     /\ {activeServices[id].queuePosition : id \in queued}
          = {Some(n) : n \in 1..Cardinality(queued)}

\* C28: an order id occurs in technician T's activeJobs iff that order is
\* live and lists T in its assignedWorkers, and it occurs there at most once.
C28_JobsMatchOrders ==
  \A w \in Workers :
    /\ \A i, j \in 1..Len(workers[w].activeJobs) :
         i # j => workers[w].activeJobs[i] # workers[w].activeJobs[j]
    /\ Range(workers[w].activeJobs)
         = {id \in DOMAIN activeServices : w \in Range(activeServices[id].assignedWorkers)}

\* C29: each bay's currentLoad is min(100, 50 x the number of live non-queued
\* orders assigned to it) and its assignedWorkers are the technicians of
\* those orders.
C29_BayAccounting ==
  \A b \in Bays :
    LET onBay == {id \in DOMAIN activeServices :
                    /\ activeServices[id].status # "Queued"
                    /\ activeServices[id].assignedMachine = BayLabel(b)}
    IN /\ machines[b].currentLoad = Min(100, 50 * Cardinality(onBay))
       /\ Range(machines[b].assignedWorkers)
            = UNION {Range(activeServices[id].assignedWorkers) : id \in onBay}

\* C30: every create adds exactly one entry to the live set and replaces no
\* live order.
C30_CreateAddsOne ==
  [][calls'.create = calls.create + 1
       => /\ response'.id \notin DOMAIN activeServices
          /\ Cardinality(DOMAIN activeServices') = Cardinality(DOMAIN activeServices) + 1]_vars

\* C22: complete(O) changes the status, assignedMachine and queuePosition of
\* no live order other than O, and no create or complete moves a Queued order
\* out of Queued: it stays Queued until it is itself completed.
C22_NoPromotion ==
  [][/\ (calls'.create = calls.create + 1 \/ calls'.complete = calls.complete + 1)
          => \A id \in DOMAIN activeServices \cap DOMAIN activeServices' :
               activeServices[id].status = "Queued"
                 => activeServices'[id].status = "Queued"
     /\ calls'.complete = calls.complete + 1
          => \A id \in DOMAIN activeServices \ {response'.id} :
               /\ id \in DOMAIN activeServices'
               /\ activeServices'[id].status = activeServices[id].status
               /\ activeServices'[id].assignedMachine = activeServices[id].assignedMachine
               /\ activeServices'[id].queuePosition = activeServices[id].queuePosition]_vars

\* C21: create on a validated intake never fails because of an unknown task
\* name, missing or exhausted stock, no technician with capacity or no free
\* bay: it answers with success, and a live order with the returned id exists.
C21_CreateAlwaysSucceeds ==
  [][calls'.create = calls.create + 1
       => /\ response'.op = "create"
          /\ response'.code = 200
          /\ response'.id \in DOMAIN activeServices'
          /\ activeServices'[response'.id].id = response'.id]_vars

\* A request with an unknown task name found a part out of stock, no
\* technician with capacity and no qualifying bay, and its order is live.
C21_Witness ==
  /\ response.op = "create"
  /\ response.code = 200
  /\ \E p \in DOMAIN inventoryItems : <<"is out of stock", p>> \in Range(response.warnings)
  /\ <<"All workers are at maximum capacity">> \in Range(response.warnings)
  /\ <<"All machines are currently in use">> \in Range(response.warnings)
  /\ response.id \in DOMAIN activeServices
  /\ "Undercoating" \in Range(activeServices[response.id].selectedTasks)

====
